---------------------------- MODULE Spec2Model ----------------------------
(***************************************************************************)
(* The EVM memory of heimdall-rs (common/src/ether/evm/core/memory.rs):     *)
(* the byte buffer `Memory.memory`, the `ByteTracker` in `Memory.bytes`     *)
(* that maps ranges of byte offsets to the opcode that wrote them, and the  *)
(* operations of `Memory`.                                                  *)
(***************************************************************************)
EXTENDS Integers, Sequences, FiniteSets, TLC

(***************************************************************************)
(* Program constants.                                                       *)
(***************************************************************************)
\* offset.min(65536), size.min(65536)
Ceiling == 65536

\* usize::MAX, the value `size - 1` wraps to when size = 0 and the build has
\* overflow checks off.  The model keeps it at 2^31 - 1, the largest integer
\* TLC holds: all that is ever done with it is comparing it to offsets far
\* below it.
USIZE_MAX == 2147483647

(***************************************************************************)
(* Bounds of the model.                                                     *)
(***************************************************************************)
MaxOffset == 2
MaxSize == 4
MaxOps == 2
MaxCeilOps == 2

\* the byte offsets the provenance queries probe
MaxByte == MaxOffset + MaxSize + 1
ProbeBytes == 0..MaxByte

Offsets == 0..MaxOffset
Sizes == 0..MaxSize
\* &[u8] arguments: each is shorter than, as long as, and longer than some size
Values == {<<17>>, <<34, 51, 68>>}
\* WrappedOpcode values; the memory never looks inside one
Opcodes == {"op1", "op2"}

\* the arguments of extend and expansion_cost: within the first word, across
\* its end, and up to 34 words
GrowOffsets == {0, 31, 1024}
GrowSizes == {0, 1, 32, 64}

\* the arguments of the calls of the specification SpecCeil: at, just below
\* and just above the ceiling, and a few small ones
CeilOffsets == {2, Ceiling + 1}
CeilSizes == {3, Ceiling + 2}
\* shorter than, as long as and longer than the size 3
CeilValues == {<<17>>, <<34, 51, 68>>, <<85, 102, 119, 136>>}
CeilTracked == {<<17>>}
\* the sizes of the tracked stores: the larger one reaches past the end of
\* the buffer that a store capped at the ceiling leaves
CeilTrackedSizes == {3, Ceiling + 34}
CeilOpcodes == {"op1"}

VARIABLES
    memory,          \* Memory.memory : Vec<u8>
    bytes,           \* Memory.bytes.0 : HashMap<Range<usize>, WrappedOpcode>
    panicked,        \* a panic has unwound out of a call: the execution is over
    overflow_checks, \* the build's overflow-checks setting (on in debug, off in release)
    last,            \* the last call made on the Memory and what it returned
    written,         \* history: per probed byte, the opcode of the most recent
                     \* store_with_opcode call whose span [offset, offset+size-1] holds it
    nops             \* number of calls made

vars == <<memory, bytes, panicked, overflow_checks, last, written, nops>>

NoOpcode == "none"

(***************************************************************************)
(* std: Range<usize>, HashMap, Vec                                          *)
(***************************************************************************)
Range(s, e) == [start |-> s, end |-> e]

\* Range::contains: start <= x < end
contains(r, x) == r.start <= x /\ x < r.end

EmptyMap == [r \in {} |-> NoOpcode]

\* HashMap::insert: an existing key keeps its place and gets the new value
insert(m, k, v) == [r \in (DOMAIN m) \cup {k} |-> IF r = k THEN v ELSE m[r]]

\* HashMap::remove
remove(m, k) == [r \in (DOMAIN m) \ {k} |-> m[r]]

\* vec![0u8; n], built by doubling
RECURSIVE Zeros(_)
Zeros(n) ==
    IF n <= 0 THEN << >>
    ELSE LET half == Zeros(n \div 2)
         IN IF n % 2 = 0 THEN half \o half ELSE Append(half \o half, 0)

\* Vec::resize(new_len, 0u8)
resize(v, new_len) ==
    IF new_len <= Len(v) THEN SubSeq(v, 1, new_len)
    ELSE v \o Zeros(new_len - Len(v))

\* Vec::splice(from..to, replace_with), offsets counted from 0
splice(v, from, to, replace_with) ==
    SubSeq(v, 1, from) \o replace_with \o SubSeq(v, to + 1, Len(v))

\* &v[from..to] as a Vec, offsets counted from 0
slice(v, from, to) == SubSeq(v, from + 1, to)

min(a, b) == IF a <= b THEN a ELSE b

(***************************************************************************)
(* ByteTracker                                                              *)
(***************************************************************************)
\* fn range_collides(incoming, incumbent)
range_collides(incoming, incumbent) ==
    incumbent.start <= incoming.start /\ incumbent.end >= incoming.start

\* fn affected_ranges(&self, range)
affected_ranges(m, range) == {incumbent \in DOMAIN m : range_collides(range, incumbent)}

\* the closure range_needs_deletion of write
range_needs_deletion(incoming, incumbent) ==
    incoming.start <= incumbent.start /\ incoming.end >= incumbent.end

\* the closure range_needs_splitting of write
range_needs_splitting(incoming, incumbent) ==
    incoming.start > incumbent.start /\ incoming.end < incumbent.end

\* The body of the for_each closure of write, for one incumbent: the map it
\* leaves, or a panic (todo!(), or the expect on a missing incumbent).
resolve_incumbent(m, range, incumbent) ==
    IF range_needs_deletion(range, incumbent)
    THEN [map |-> remove(m, incumbent), panicked |-> FALSE]
    ELSE IF range_needs_splitting(range, incumbent)
    THEN IF incumbent \notin DOMAIN m
         THEN [map |-> m, panicked |-> TRUE]
         ELSE LET left == Range(incumbent.start, range.start - 1)
                  right == Range(range.end + 1, incumbent.end - 1)
                  old_opcode == m[incumbent]
              IN [map |-> insert(insert(remove(m, incumbent), left, old_opcode),
                                 right, old_opcode),
                  panicked |-> FALSE]
    ELSE [map |-> m, panicked |-> TRUE]

\* incumbents.iter().for_each(..): the incumbents come out of the HashMap in
\* no fixed order, so every order is a possible run; a panic ends the run
\* with the map as the incumbents before it left it.
RECURSIVE for_each(_, _, _)
for_each(m, range, incumbents) ==
    IF incumbents = {} THEN {[map |-> m, panicked |-> FALSE]}
    ELSE UNION {
        LET r == resolve_incumbent(m, range, incumbent)
        IN IF r.panicked THEN {r}
           ELSE for_each(r.map, range, incumbents \ {incumbent})
        : incumbent \in incumbents }

\* fn write(&mut self, offset, size, opcode): the set of outcomes.
\* `size - 1` with size = 0 panics under overflow checks and wraps without.
write(m, offset, size, opcode, checks) ==
    IF size = 0 /\ checks THEN {[map |-> m, panicked |-> TRUE]}
    ELSE
    LET range == Range(offset, IF size = 0 THEN USIZE_MAX ELSE size - 1)
        incumbents == affected_ranges(m, range)
    IN IF incumbents = {}
       THEN {[map |-> insert(m, range, opcode), panicked |-> FALSE]}
       ELSE { IF r.panicked THEN r
              ELSE [map |-> insert(r.map, range, opcode), panicked |-> FALSE]
              : r \in for_each(m, range, incumbents) }

\* fn find_range(&self, offset): keys().find(..) yields any one of the keys
\* that contain the offset
find_range(m, offset) == {r \in DOMAIN m : contains(r, offset)}

Panic == <<"panic">>
Some(x) == <<"Some", x>>
None == <<"None">>

\* fn get_by_offset(&self, offset): the set of outcomes.  The expect on
\* find_range panics when no key contains the offset.
get_by_offset(m, offset) ==
    IF find_range(m, offset) = {} THEN {Panic}
    ELSE {Some(m[r]) : r \in find_range(m, offset)}

(***************************************************************************)
(* Memory                                                                   *)
(***************************************************************************)
\* fn size(&self)
size(mem) == Len(mem)

\* extend that grows to offset + size without rounding up to a word
extend_exact(mem, offset, sz) ==
    LET new_mem_size == offset + sz
    IN IF new_mem_size > size(mem)
       THEN LET byte_difference == new_mem_size - size(mem)
            IN resize(mem, Len(mem) + byte_difference)
       ELSE mem

\* extend that resizes to the covering size even when the buffer is longer
extend_always_resizes(mem, offset, sz) ==
    LET new_mem_size == ((offset + sz + 31) \div 32) * 32
    IN resize(mem, new_mem_size)

\* fn extend(&mut self, offset, size)
extend(mem, offset, sz) ==
    LET new_mem_size == ((offset + sz + 31) \div 32) * 32
    IN IF new_mem_size > size(mem)
       THEN LET byte_difference == new_mem_size - size(mem)
            IN resize(mem, Len(mem) + byte_difference)
       ELSE mem

\* store with the padding put after the value instead of before it
store_pads_right(mem, offset0, size0, value0) ==
    LET offset == min(offset0, Ceiling)
        sz == min(size0, Ceiling)
        value_len == Len(value0)
        value == IF value_len >= sz THEN slice(value0, 0, sz)
                 ELSE value0 \o Zeros(sz - value_len)
    IN splice(extend(mem, offset, sz), offset, offset + sz, value)

\* store with the offset left uncapped
store_offset_uncapped(mem, offset0, size0, value0) ==
    LET offset == offset0
        sz == min(size0, Ceiling)
        value_len == Len(value0)
        value == IF value_len >= sz THEN slice(value0, 0, sz)
                 ELSE LET null_bytes == Zeros(sz - value_len)
                      IN splice(value0, 0, 0, null_bytes)
    IN splice(extend(mem, offset, sz), offset, offset + sz, value)

\* fn store(&mut self, offset, size, value)
store(mem, offset0, size0, value0) ==
    LET offset == min(offset0, Ceiling)
        sz == min(size0, Ceiling)
        value_len == Len(value0)
        value == IF value_len >= sz THEN slice(value0, 0, sz)
                 ELSE LET null_bytes == Zeros(sz - value_len)
                      IN splice(value0, 0, 0, null_bytes)
    IN splice(extend(mem, offset, sz), offset, offset + sz, value)

\* read with the offset left uncapped
read_offset_uncapped(mem, offset0, size0) ==
    LET sz == min(size0, Ceiling)
        offset == offset0
    IN IF offset + sz > size(mem)
       THEN LET value == IF offset <= size(mem)
                         THEN slice(mem, offset, Len(mem))
                         ELSE << >>
            IN resize(value, sz)
       ELSE slice(mem, offset, offset + sz)

\* read without the zero fill of the part past the end of the buffer
read_no_fill(mem, offset0, size0) ==
    LET sz == min(size0, Ceiling)
        offset == min(offset0, Ceiling)
    IN IF offset + sz > size(mem)
       THEN IF offset <= size(mem) THEN slice(mem, offset, Len(mem)) ELSE << >>
       ELSE slice(mem, offset, offset + sz)

\* fn read(&self, offset, size)
read(mem, offset0, size0) ==
    LET sz == min(size0, Ceiling)
        offset == min(offset0, Ceiling)
    IN IF offset + sz > size(mem)
       THEN LET value == IF offset <= size(mem)
                         THEN slice(mem, offset, Len(mem))
                         ELSE << >>
            IN resize(value, sz)
       ELSE slice(mem, offset, offset + sz)

\* memory_cost without the quadratic term
memory_cost_linear(mem) ==
    LET memory_word_size == (size(mem) + 31) \div 32
    IN 3 * memory_word_size

\* memory_cost with the quadratic term divided by 1024
memory_cost_coarse(mem) ==
    LET memory_word_size == (size(mem) + 31) \div 32
    IN (memory_word_size * memory_word_size) \div 1024 + (3 * memory_word_size)

\* fn memory_cost(&self)
memory_cost(mem) ==
    LET memory_word_size == (size(mem) + 31) \div 32
    IN (memory_word_size * memory_word_size) \div 512 + (3 * memory_word_size)

\* expansion_cost without the floor at zero
expansion_cost_unfloored(mem, offset, sz) ==
    LET new_memory_word_size == (offset + sz + 31) \div 32
        new_memory_cost == (new_memory_word_size * new_memory_word_size) \div 512
                           + (3 * new_memory_word_size)
    IN new_memory_cost - memory_cost(mem)

\* fn expansion_cost(&self, offset, size)
expansion_cost(mem, offset, sz) ==
    LET new_memory_word_size == (offset + sz + 31) \div 32
        new_memory_cost == (new_memory_word_size * new_memory_word_size) \div 512
                           + (3 * new_memory_word_size)
    IN IF new_memory_cost < memory_cost(mem) THEN 0
       ELSE new_memory_cost - memory_cost(mem)

\* fn origin(&self, byte)
origin(m, byte) == get_by_offset(m, byte)

(***************************************************************************)
(* The calls                                                                *)
(***************************************************************************)
\* what the last call was and what it returned
Call(op, ret_bytes, ret_cost, ret_opcode) ==
    [op |-> op, ret_bytes |-> ret_bytes, ret_cost |-> ret_cost, ret_opcode |-> ret_opcode]

NoCall == Call("new", << >>, 0, None)

\* Memory::new()
Init ==
    /\ memory = << >>
    /\ bytes = EmptyMap
    /\ panicked = FALSE
    /\ overflow_checks \in BOOLEAN
    /\ last = NoCall
    /\ written = [b \in ProbeBytes |-> NoOpcode]
    /\ nops = 0

\* a panic ends the execution
CanCall == ~panicked

Extend(offset, sz) ==
    /\ CanCall
    /\ last' = Call("extend", << >>, 0, None)
    /\ memory' = extend(memory, offset, sz)
    /\ nops' = nops + 1
    /\ UNCHANGED <<bytes, panicked, overflow_checks, written>>

\* an untracked store that records a provenance entry for its span
Store_records_entry(offset, sz, value) ==
    /\ CanCall
    /\ last' = Call("store", << >>, 0, None)
    /\ memory' = store(memory, offset, sz, value)
    /\ bytes' = insert(bytes, Range(offset, offset + sz), "op1")
    /\ nops' = nops + 1
    /\ UNCHANGED <<panicked, overflow_checks, written>>

Store(offset, sz, value) ==
    /\ CanCall
    /\ last' = Call("store", << >>, 0, None)
    /\ memory' = store(memory, offset, sz, value)
    /\ nops' = nops + 1
    /\ UNCHANGED <<bytes, panicked, overflow_checks, written>>

\* store, then bytes.write; a panic in write leaves the store done
StoreWithOpcode(offset, sz, value, opcode) ==
    /\ CanCall
    /\ last' = Call("store_with_opcode", << >>, 0, None)
    /\ memory' = store(memory, offset, sz, value)
    /\ \E r \in write(bytes, offset, sz, opcode, overflow_checks) :
          /\ bytes' = r.map
          /\ panicked' = r.panicked
    /\ written' = [b \in ProbeBytes |->
                     IF offset <= b /\ b <= offset + sz - 1 THEN opcode ELSE written[b]]
    /\ nops' = nops + 1
    /\ UNCHANGED overflow_checks

Read(offset, sz) ==
    /\ CanCall
    /\ last' = Call("read", read(memory, offset, sz), 0, None)
    /\ nops' = nops + 1
    /\ UNCHANGED <<memory, bytes, panicked, overflow_checks, written>>

MemoryCost ==
    /\ CanCall
    /\ last' = Call("memory_cost", << >>, memory_cost(memory), None)
    /\ nops' = nops + 1
    /\ UNCHANGED <<memory, bytes, panicked, overflow_checks, written>>

ExpansionCost(offset, sz) ==
    /\ CanCall
    /\ last' = Call("expansion_cost", << >>, expansion_cost(memory, offset, sz), None)
    /\ nops' = nops + 1
    /\ UNCHANGED <<memory, bytes, panicked, overflow_checks, written>>

Origin(byte) ==
    /\ CanCall
    /\ \E r \in origin(bytes, byte) :
          /\ panicked' = (r = Panic)
          /\ last' = Call("origin", << >>, 0, r)
    /\ nops' = nops + 1
    /\ UNCHANGED <<memory, bytes, overflow_checks, written>>

\* the model stops an execution after MaxOps calls
Next ==
    \/ \E offset \in GrowOffsets, sz \in GrowSizes : nops < MaxOps /\ Extend(offset, sz)
    \/ \E offset \in Offsets, sz \in Sizes, value \in Values :
          nops < MaxOps /\ Store(offset, sz, value)
    \/ \E offset \in Offsets, sz \in Sizes, value \in Values, opcode \in Opcodes :
          nops < MaxOps /\ StoreWithOpcode(offset, sz, value, opcode)
    \/ \E offset \in Offsets, sz \in Sizes : nops < MaxOps /\ Read(offset, sz)
    \/ nops < MaxOps /\ MemoryCost
    \/ \E offset \in GrowOffsets, sz \in GrowSizes :
          nops < MaxOps /\ ExpansionCost(offset, sz)
    \/ \E byte \in ProbeBytes : nops < MaxOps /\ Origin(byte)

Spec == Init /\ [][Next]_vars

\* the same calls with arguments around the ceiling
NextCeil ==
    \/ \E offset \in CeilOffsets, sz \in CeilSizes, value \in CeilValues :
          nops < MaxCeilOps /\ Store(offset, sz, value)
    \/ \E offset \in CeilOffsets, sz \in CeilTrackedSizes, value \in CeilTracked,
              opcode \in CeilOpcodes :
          nops < MaxCeilOps /\ StoreWithOpcode(offset, sz, value, opcode)
    \/ \E offset \in CeilOffsets, sz \in CeilSizes : nops < MaxCeilOps /\ Read(offset, sz)

SpecCeil == Init /\ [][NextCeil]_vars

(***************************************************************************)
(* The provenance map (ByteTracker)                                         *)
(***************************************************************************)
\* two ranges share a byte offset
Overlap(r1, r2) ==
    /\ r1.start < r1.end
    /\ r2.start < r2.end
    /\ r1.start < r2.end
    /\ r2.start < r1.end

\* the probed byte offsets a range contains
Cover(r) == {b \in ProbeBytes : contains(r, b)}

\* the range write builds for a store of sz >= 1 bytes at offset
Incoming(offset, sz) == Range(offset, sz - 1)

\* the step is a store_with_opcode call that returned
Tracked(offset, sz, value, opcode) ==
    /\ last'.op = "store_with_opcode"
    /\ StoreWithOpcode(offset, sz, value, opcode)

\* C1: after any sequence of store_with_opcode calls on a fresh Memory, any
\* two distinct ranges that are keys of the provenance map share no byte
\* offset.  (Stated for the builds with overflow checks, where no zero-size
\* write leaves a wrapped range in the map.)
C1_RangesDisjoint ==
    (~panicked /\ overflow_checks) =>
        \A r1 \in DOMAIN bytes, r2 \in DOMAIN bytes : r1 # r2 => ~Overlap(r1, r2)

\* C2: for every byte that lies in the span [offset, offset+size-1] of some
\* store_with_opcode call made so far, origin returns the opcode of the most
\* recent such call.
C2_OriginIsLastWriter ==
    ~panicked =>
        \A b \in ProbeBytes :
            written[b] # NoOpcode => origin(bytes, b) = {Some(written[b])}

\* C3: for every byte that no store_with_opcode call has covered, origin
\* returns None and does not panic.
C3_UnwrittenIsNone ==
    ~panicked =>
        \A b \in ProbeBytes :
            written[b] = NoOpcode => origin(bytes, b) = {None}

\* C4: a write of size >= 1 on an empty map does not panic and records the
\* opcode for exactly the bytes offset .. offset+size-1: get_by_offset
\* returns it for these bytes and None for every other byte.
C4_WriteOnEmptyMap ==
    [][\A offset \in Offsets, sz \in Sizes, value \in Values, opcode \in Opcodes :
          (DOMAIN bytes = {} /\ sz >= 1 /\ Tracked(offset, sz, value, opcode))
          => /\ ~panicked'
             /\ \A b \in ProbeBytes :
                   get_by_offset(bytes', b)
                     = IF offset <= b /\ b <= offset + sz - 1
                       THEN {Some(opcode)} ELSE {None}]_vars

\* the incoming range overlaps the incumbent at exactly one end: it shares a
\* byte with it, neither covers it nor lies strictly inside it
OneEndOverlap(incoming, incumbent) ==
    /\ Overlap(incoming, incumbent)
    /\ ~range_needs_deletion(incoming, incumbent)
    /\ ~range_needs_splitting(incoming, incumbent)

\* C5: when the incoming range of a write overlaps an incumbent at exactly
\* one end, the write does not panic, the incoming range is in the map with
\* the new opcode, and the incumbent is replaced by a range that covers the
\* bytes of the incumbent outside the incoming range and keeps the
\* incumbent's opcode.  (Stated for the builds with overflow checks.)
C5_ShorteningCompletes ==
    [][\A offset \in Offsets, sz \in Sizes, value \in Values, opcode \in Opcodes :
          (/\ sz >= 1
           /\ overflow_checks
           /\ Tracked(offset, sz, value, opcode)
           /\ \E incumbent \in DOMAIN bytes :
                 OneEndOverlap(Incoming(offset, sz), incumbent))
          => /\ ~panicked'
             /\ Incoming(offset, sz) \in DOMAIN bytes'
             /\ bytes'[Incoming(offset, sz)] = opcode
             /\ \A incumbent \in DOMAIN bytes :
                   OneEndOverlap(Incoming(offset, sz), incumbent)
                   => /\ incumbent \notin DOMAIN bytes'
                      /\ \E r \in DOMAIN bytes' :
                            /\ bytes'[r] = bytes[incumbent]
                            /\ Cover(r) = Cover(incumbent) \ Cover(Incoming(offset, sz))]_vars

\* C6: a write of a non-empty range strictly inside the one range of the map does not
\* panic; afterwards origin returns the new opcode for every byte of the
\* incoming range and the incumbent's opcode for every byte of the incumbent
\* outside the incoming range.  (Stated for the builds with overflow checks.)
C6_SplitKeepsProvenance ==
    [][\A offset \in Offsets, sz \in Sizes, value \in Values, opcode \in Opcodes :
          (/\ offset < sz - 1
           /\ overflow_checks
           /\ Tracked(offset, sz, value, opcode)
           /\ Cardinality(DOMAIN bytes) = 1
           /\ \A incumbent \in DOMAIN bytes :
                 range_needs_splitting(Incoming(offset, sz), incumbent))
          => /\ ~panicked'
             /\ \A incumbent \in DOMAIN bytes : \A b \in ProbeBytes :
                   /\ contains(Incoming(offset, sz), b)
                      => origin(bytes', b) = {Some(opcode)}
                   /\ (contains(incumbent, b) /\ ~contains(Incoming(offset, sz), b))
                      => origin(bytes', b) = {Some(bytes[incumbent])}]_vars

\* C7: a write of a range that covers the one, non-empty, range of the map does not
\* panic and removes the incumbent's entry; afterwards origin returns the new
\* opcode for every byte of the written span [offset, offset+size-1].
C7_FullCoverReplaces ==
    [][\A offset \in Offsets, sz \in Sizes, value \in Values, opcode \in Opcodes :
          (/\ sz >= 1
           /\ Tracked(offset, sz, value, opcode)
           /\ Cardinality(DOMAIN bytes) = 1
           /\ \A incumbent \in DOMAIN bytes :
                 /\ incumbent.start < incumbent.end
                 /\ range_needs_deletion(Incoming(offset, sz), incumbent))
          => /\ ~panicked'
             /\ \A incumbent \in DOMAIN bytes :
                   incumbent # Incoming(offset, sz) => incumbent \notin DOMAIN bytes'
             /\ \A b \in ProbeBytes :
                   (offset <= b /\ b <= offset + sz - 1)
                   => origin(bytes', b) = {Some(opcode)}]_vars

(***************************************************************************)
(* The buffer: store and read                                               *)
(***************************************************************************)
\* every offset and every value the two specifications store
AllOffsets == Offsets \cup CeilOffsets
AllValues == Values \cup CeilValues

\* C8: in every memory state, for every offset and every value of
\* size = value.len() <= 65536 bytes, read(offset, size) made right after
\* store(offset, size, value) returns the value.
C8_ReadAfterStore ==
    \A offset \in AllOffsets, value \in AllValues :
        read(store(memory, offset, Len(value), value), offset, Len(value)) = value

\* a store of a value as long as the size has just been made at an offset
\* above the ceiling, and a read there returns it
C8_Witness ==
    /\ last.op = "store"
    /\ Len(memory) > Ceiling
    /\ read(memory, Ceiling + 1, 3) = <<34, 51, 68>>

\* the value of a store cut or padded to sz bytes: its first sz bytes if it
\* is longer, and zero bytes followed by the value if it is shorter
Normalised(value, sz) ==
    IF Len(value) >= sz THEN SubSeq(value, 1, sz)
    ELSE Zeros(sz - Len(value)) \o value

\* new is old, zero-extended to the length of new, with exactly the sz bytes
\* at offset .. offset+sz-1 replaced by the normalised value
StoreEffect(old, new, offset, sz, value) ==
    /\ Len(new) >= Len(old)
    /\ Len(new) >= offset + sz
    /\ LET extended == old \o Zeros(Len(new) - Len(old))
       IN /\ SubSeq(new, 1, offset) = SubSeq(extended, 1, offset)
          /\ SubSeq(new, offset + 1, offset + sz) = Normalised(value, sz)
          /\ SubSeq(new, offset + sz + 1, Len(new))
               = SubSeq(extended, offset + sz + 1, Len(new))

\* the step is a store call
Stored(offset, sz, value) ==
    /\ last'.op = "store"
    /\ Store(offset, sz, value)

\* C9 as claimed: after store(offset, size, value) the buffer is the previous
\* buffer, zero-extended, with exactly the size bytes at
\* offset .. offset+size-1 replaced by the value normalised to size bytes.
C9_StoreEffectAsClaimed ==
    [][\A offset \in CeilOffsets, sz \in CeilSizes, value \in CeilValues :
          Stored(offset, sz, value)
          => StoreEffect(memory, memory', offset, sz, value)]_vars

\* C9 amended: the same with offset and size each capped at 65536 first.
C9_StoreEffect ==
    [][\A offset \in CeilOffsets, sz \in CeilSizes, value \in CeilValues :
          Stored(offset, sz, value)
          => StoreEffect(memory, memory', min(offset, Ceiling), min(sz, Ceiling), value)]_vars

\* a one-byte value has just been stored in three bytes at an offset above
\* the ceiling: it is the last of the three bytes at 65536 .. 65538
C9_Witness ==
    /\ last.op = "store"
    /\ Len(memory) = Ceiling + 32
    /\ SubSeq(memory, Ceiling + 1, Ceiling + 3) = <<0, 0, 17>>

\* ret is sz bytes: the bytes of mem from offset on, followed by zero bytes
ReadResult(mem, ret, offset, sz) ==
    /\ Len(ret) = sz
    /\ ret = SubSeq(mem \o Zeros(offset + sz), offset + 1, offset + sz)

\* the step is a read call
WasRead(offset, sz) ==
    /\ last'.op = "read"
    /\ Read(offset, sz)

C11_WordAlignedAndGrowing ==
    /\ Len(memory) % 32 = 0
    /\ [][Len(memory') % 32 = 0 /\ Len(memory') >= Len(memory)]_vars

\* a buffer of two words that a later store left at two words
C11_Witness ==
    /\ last.op = "store"
    /\ nops = 2
    /\ Len(memory) = 64

\* the smallest multiple of 32 that is at least n
RoundUp32(n) ==
    CHOOSE m \in {32 * k : k \in 0..(n \div 32 + 1)} :
        m >= n /\ \A k \in 0..(n \div 32 + 1) : 32 * k >= n => m <= 32 * k

Max(a, b) == IF a >= b THEN a ELSE b

\* the step is the call extend(offset, sz)
Extended(offset, sz) == last'.op = "extend" /\ Extend(offset, sz)

\* C12: extend(offset, size) sets the length of the buffer to the larger of
\* its old length and the smallest multiple of 32 that is at least
\* offset + size, fills the new bytes with zero and leaves the old bytes as
\* they were; when offset + size is within the old length nothing changes.
C12_Extend ==
    [][\A offset \in GrowOffsets, sz \in GrowSizes :
          Extended(offset, sz) =>
              /\ Len(memory') = Max(Len(memory), RoundUp32(offset + sz))
              /\ SubSeq(memory', 1, Len(memory)) = memory
              /\ \A i \in (Len(memory) + 1)..Len(memory') : memory'[i] = 0
              /\ offset + sz <= Len(memory) => memory' = memory]_vars

\* a buffer holding a stored byte, grown by extend past its first word
C12_Witness ==
    /\ last.op = "extend"
    /\ Len(memory) = 64
    /\ \E i \in 1..32 : memory[i] # 0

(***************************************************************************)
(* C13: arguments above the ceiling                                         *)
(***************************************************************************)
\* an argument above the ceiling replaced by the ceiling
Cap(x) == IF x > Ceiling THEN Ceiling ELSE x

\* C13: store and read called with an offset or a size above 65536 report no
\* error, and have the effect, respectively the result, of the same call
\* with each such argument replaced by 65536.
C13_AboveCeiling ==
    [][/\ \A offset \in CeilOffsets, sz \in CeilSizes, value \in CeilValues :
             Stored(offset, sz, value) =>
                 /\ ~panicked'
                 /\ memory' = store(memory, Cap(offset), Cap(sz), value)
       /\ \A offset \in CeilOffsets, sz \in CeilSizes :
             WasRead(offset, sz) =>
                 /\ ~panicked'
                 /\ last'.ret_bytes = read(memory, Cap(offset), Cap(sz))]_vars

\* a read of more than 65536 bytes from a buffer longer than that returned
\* 65536 bytes
C13_Witness ==
    /\ last.op = "read"
    /\ Len(memory) > Ceiling
    /\ Len(last.ret_bytes) = Ceiling

(***************************************************************************)
(* C14: what may change the provenance map                                  *)
(***************************************************************************)
UntrackedCalls == {"extend", "store", "read", "memory_cost", "expansion_cost", "origin"}

\* C14: the untracked store, extend, read, memory_cost, expansion_cost and
\* origin leave the provenance map exactly as it was; the map changes only
\* in a step of store_with_opcode.
C14_MapFrame ==
    [][/\ last'.op \in UntrackedCalls => bytes' = bytes
       /\ bytes' # bytes => last'.op = "store_with_opcode"]_vars

\* an untracked store into a buffer that has a provenance entry
C14_Witness ==
    /\ last.op = "store"
    /\ DOMAIN bytes # {}
    /\ ~panicked

(***************************************************************************)
(* C15-C17: the gas cost                                                    *)
(***************************************************************************)
\* the step is the call expansion_cost(offset, sz)
CostAsked(offset, sz) == last'.op = "expansion_cost" /\ ExpansionCost(offset, sz)

\* C15: expansion_cost(offset, size) is memory_cost() as it would be after
\* extend(offset, size) minus memory_cost() as it is; it is never negative
\* and is 0 when the buffer already covers offset + size.  On a new memory
\* expansion_cost(0, 32) is 3; on a buffer of one word expansion_cost(0, 32)
\* is 0 and expansion_cost(0, 64) is 3.
C15_ExpansionCost ==
    [][\A offset \in GrowOffsets, sz \in GrowSizes :
          CostAsked(offset, sz) =>
              LET cost == last'.ret_cost
              IN /\ cost = memory_cost(extend(memory, offset, sz)) - memory_cost(memory)
                 /\ cost >= 0
                 /\ offset + sz <= Len(memory) => cost = 0
                 /\ Len(memory) = 0 /\ offset = 0 /\ sz = 32 => cost = 3
                 /\ Len(memory) = 32 /\ offset = 0 /\ sz = 32 => cost = 0
                 /\ Len(memory) = 32 /\ offset = 0 /\ sz = 64 => cost = 3]_vars

\* a buffer of one word holding a stored byte was asked for the cost of
\* growing to two words
C15_Witness ==
    /\ last.op = "expansion_cost"
    /\ Len(memory) = 32
    /\ \E i \in 1..32 : memory[i] # 0
    /\ last.ret_cost = 3

\* the number of 32-byte words needed to hold n bytes
Words(n) == RoundUp32(n) \div 32

\* C16: memory_cost() is floor(w * w / 512) + 3 * w, where w is size() / 32
\* rounded up; it depends on the length of the buffer only, and the call
\* changes nothing.
C16_MemoryCost ==
    [][last'.op = "memory_cost" /\ MemoryCost =>
          LET w == Words(Len(memory))
          IN /\ last'.ret_cost = (w * w) \div 512 + 3 * w
             /\ UNCHANGED <<memory, bytes, panicked>>]_vars

\* the cost of a buffer of 32 words, where the quadratic term counts
C16_Witness ==
    /\ last.op = "memory_cost"
    /\ Len(memory) = 1024
    /\ last.ret_cost = 98

\* C17 as the specification states it: a buffer grown to exactly 32 bytes
\* costs 3, and a buffer grown to exactly 1024 bytes (32 words) costs 101.
C17_CostAsClaimed ==
    /\ last.op = "memory_cost" /\ Len(memory) = 32 => last.ret_cost = 3
    /\ last.op = "memory_cost" /\ Len(memory) = 1024 => last.ret_cost = 101

\* C17, amended: a buffer grown to exactly 32 bytes costs 3, and a buffer
\* grown to exactly 1056 bytes (33 words) costs 101; a buffer of exactly
\* 1024 bytes (32 words) costs 98.
C17_Cost ==
    /\ last.op = "memory_cost" /\ Len(memory) = 32 => last.ret_cost = 3
    /\ last.op = "memory_cost" /\ Len(memory) = 1056 => last.ret_cost = 101
    /\ last.op = "memory_cost" /\ Len(memory) = 1024 => last.ret_cost = 98

\* the cost of a buffer of 33 words
C17_Witness ==
    /\ last.op = "memory_cost"
    /\ Len(memory) = 1056
    /\ last.ret_cost = 101

(***************************************************************************)
(* C18-C20: the provenance map and the store it follows                     *)
(***************************************************************************)
\* the collision the specification states, on the ends of the two ranges
Intersects(incoming, incumbent) ==
    incumbent.start <= incoming.end /\ incumbent.end >= incoming.start

\* C18: during write an incumbent range is treated as colliding with the
\* incoming range if and only if incumbent.start <= incoming.end and
\* incumbent.end >= incoming.start; in particular an incumbent that starts
\* after incoming.start and still overlaps the incoming range is among the
\* affected ranges.  (Stated for the builds with overflow checks, and for
\* incoming and incumbent ranges that each contain a byte as write builds
\* them.)
C18_CollisionIsIntersection ==
    [][\A offset \in Offsets, sz \in Sizes \ {0}, value \in Values, opcode \in Opcodes :
          (overflow_checks /\ offset < sz - 1 /\ Tracked(offset, sz, value, opcode)) =>
              \A incumbent \in DOMAIN bytes :
                  incumbent.start < incumbent.end =>
                      /\ incumbent \in affected_ranges(bytes, Incoming(offset, sz))
                            <=> Intersects(Incoming(offset, sz), incumbent)
                      /\ (/\ incumbent.start > Incoming(offset, sz).start
                          /\ Overlap(Incoming(offset, sz), incumbent))
                            => incumbent \in affected_ranges(bytes, Incoming(offset, sz))]_vars

\* C19: a tracked write of zero bytes, store_with_opcode(offset, 0, value,
\* opcode), completes without a panic in every state and leaves origin(b) as
\* it was for every byte offset b.
C19_ZeroSizeWrite ==
    [][\A offset \in Offsets, value \in Values, opcode \in Opcodes :
          Tracked(offset, 0, value, opcode) =>
              /\ ~panicked'
              /\ \A b \in ProbeBytes : origin(bytes', b) = origin(bytes, b)]_vars

\* C20: after every store_with_opcode call, calls with an offset or a size
\* above the 65536 ceiling included, the bytes recorded for the call are the
\* bytes of the buffer that the store overwrote, so that every byte offset b
\* contained in a range of the provenance map lies inside the buffer,
\* b < size().
C20_ProvenanceInsideBuffer ==
    \A r \in DOMAIN bytes :
        r.start < r.end => r.end - 1 < size(memory)

=============================================================================
